---------------------------- MODULE Spec2Model ----------------------------
(***************************************************************************)
(* Model of the loan re-engagement tools (src/tools/loan_tools.py): the    *)
(* session's customer profile and the five tool functions that read it,    *)
(* and of the browser session around them: login and logout                *)
(* (src/auth/auth.py), the profile loader (src/util/utils.py), the script  *)
(* run that creates the agent runner (src/anaya.py) and the chat history   *)
(* kept by process_with_history (src/aiAgents/loan_reengagement2.py).      *)
(*                                                                         *)
(* Units.  Money amounts (loan_offer, loan_amount, avg_monthly_balance,    *)
(* monthly_income) are integers in thousands of rupees, so the source's    *)
(* thresholds 10000, 50000, 100000, 200000, ... read 10, 50, 100, 200, ... *)
(* processing_fee is in rupees.  Interest rates and rate deltas are        *)
(* integers in hundredths of a percentage point (10.5 % is 1050, the       *)
(* delta -0.25 is -25).  Multipliers are in thousandths (x0.8 is 800).     *)
(* A profile is a Python dict: a function whose DOMAIN is the set of keys  *)
(* present.  The values of one key are of one kind (numbers, strings or    *)
(* booleans); the empty string the loader stores for a missing cell of a   *)
(* numeric column is the reserved number Blank, and a missing cell of the  *)
(* CSV row is the reserved number NaN (the string "nan" in a string        *)
(* column).  A boolean cell is never missing in the rows explored.         *)
(*                                                                         *)
(* Arithmetic.  The source computes in binary floating point; the model    *)
(* computes the same sums and products exactly.  The two agree on every    *)
(* comparison of the source against a threshold except where the exact     *)
(* value lies on the threshold (rate_adjustment against -0.1 and 0.1 in    *)
(* the explanation tags), and on every value to the two decimals the tool  *)
(* prints.  A tool's returned text is modelled by the record of the        *)
(* quantities the text is formatted from.                                  *)
(***************************************************************************)
EXTENDS Integers, Sequences, FiniteSets, TLC

VARIABLES row, customer_data, last, memo, session

vars == <<row, customer_data, last, memo, session>>

(***************************************************************************)
(* dict.get(key, default)                                                  *)
(***************************************************************************)
Get(d, k, default) == IF k \in DOMAIN d THEN d[k] ELSE default

Put(d, k, v) == [x \in (DOMAIN d) \cup {k} |-> IF x = k THEN v ELSE d[x]]

Del(d, k) == [x \in (DOMAIN d) \ {k} |-> d[x]]

Max(a, b) == IF a >= b THEN a ELSE b

Min(a, b) == IF a <= b THEN a ELSE b

\* the value '' under a key whose other values are numbers
Blank == -999999

\* '' compared with a number by <, <=, >, >= raises TypeError
IsBlank(v) == v = Blank

\* st.session_state['customer_data'] is None
NoneProfile == [k \in {"None"} |-> 0]

IsNone(cd) == cd = NoneProfile

\* a customer_id or username of None
NoneId == "None"

\* 'agent_runner' not in st.session_state
NoAgent == [k \in {"None"} |-> 0]

\* 'session_history' not in st.session_state
NoHistory == [k \in {"None"} |-> 0]

\* the session keys after initialize_session on a new browser session; page
\* is what the latest run of the script rendered (login form, chat, or the
\* error shown when the assistant could not be initialized)
InitialSession ==
    [authenticated |-> FALSE, customer_id |-> NoneId, username |-> NoneId,
     user_role |-> "customer", agent |-> NoAgent, session_history |-> NoHistory,
     page |-> "login"]

(***************************************************************************)
(* The reducing-balance EMI expression                                     *)
(*   (p * r * (1 + r) ** t) / ((1 + r) ** t - 1),  r = (rate / 100) / 12.  *)
(* EmiRaises is exactly the set of arguments on which Python raises        *)
(* ZeroDivisionError: the divisor (1 + r) ** t - 1 is zero when r = 0,     *)
(* when t = 0, or when 1 + r = -1 and t is even; and 0 ** t raises for     *)
(* 1 + r = 0 and t < 0.  With rate in hundredths of a percent, r is        *)
(* rate / 120000.  The value itself is kept as the term emi(p, rate, t).   *)
(***************************************************************************)
EmiRaises(rate, t) ==
    \/ rate = 0
    \/ t = 0
    \/ rate = -240000 /\ t % 2 = 0
    \/ rate = -120000 /\ t < 0

EmiTerm(p, rate, t) == [p |-> p, rate |-> rate, t |-> t]


(***************************************************************************)
(* calculate_dynamic_pricing, step by step.  The three accumulators of the *)
(* source (rate_adjustment, processing_fee_multiplier, max_loan_multiplier)*)
(* are the fields ra, fee, lim of acc; every factor block takes the        *)
(* accumulators as the previous block left them.                           *)
(***************************************************************************)
InitialFactors == [ra |-> 0, fee |-> 1000, lim |-> 1000]

Adjust(acc, d) == [acc EXCEPT !.ra = @ + d]

\* x *= m for multipliers held in thousandths
Times(x, m) == (x * m) \div 1000

AccountAgeFactor(acc, cd) ==
    LET account_age_years == Get(cd, "account_age_years", 0)
    IN  IF account_age_years >= 5 THEN Adjust(acc, -50)
        ELSE IF account_age_years >= 2 THEN Adjust(acc, -25)
        ELSE IF account_age_years < 1 THEN Adjust(acc, 25)
        ELSE acc

SalaryAccountFactor(acc, cd) ==
    LET is_salary_account == Get(cd, "is_salary_account", FALSE)
    IN  IF is_salary_account
        THEN [Adjust(acc, -30) EXCEPT !.fee = Times(@, 800)]
        ELSE acc

BalanceFactor(acc, cd) ==
    LET avg_monthly_balance == Get(cd, "avg_monthly_balance", 0)
    IN  IF avg_monthly_balance >= 100
        THEN [Adjust(acc, -40) EXCEPT !.lim = Times(@, 1200)]
        ELSE IF avg_monthly_balance >= 50
        THEN [Adjust(acc, -20) EXCEPT !.lim = Times(@, 1100)]
        ELSE IF avg_monthly_balance < 10 THEN Adjust(acc, 30)
        ELSE acc

CreditScoreOf_Default700(cd) == Get(cd, "credit_score", 700)

CreditScoreOf(cd) == Get(cd, "credit_score", 750)

\* the 650-699 tier is missing: those scores are priced like the lowest tier
CreditScoreFactor_NoFairTier(acc, cd) ==
    LET credit_score == CreditScoreOf(cd)
    IN  IF credit_score >= 800
        THEN [Adjust(acc, -50) EXCEPT !.lim = Times(@, 1300)]
        ELSE IF credit_score >= 750 THEN Adjust(acc, -25)
        ELSE IF credit_score >= 700 THEN Adjust(acc, 0)
        ELSE [Adjust(acc, 100) EXCEPT !.lim = Times(@, 800)]

\* the 750-799 tier adds its quarter point instead of subtracting it
CreditScoreFactor_SignSlip(acc, cd) ==
    LET credit_score == CreditScoreOf(cd)
    IN  IF credit_score >= 800
        THEN [Adjust(acc, -50) EXCEPT !.lim = Times(@, 1300)]
        ELSE IF credit_score >= 750 THEN Adjust(acc, 25)
        ELSE IF credit_score >= 700 THEN Adjust(acc, 0)
        ELSE IF credit_score >= 650 THEN Adjust(acc, 50)
        ELSE [Adjust(acc, 100) EXCEPT !.lim = Times(@, 800)]

CreditScoreFactor(acc, cd) ==
    LET credit_score == CreditScoreOf(cd)
    IN  IF credit_score >= 800
        THEN [Adjust(acc, -50) EXCEPT !.lim = Times(@, 1300)]
        ELSE IF credit_score >= 750 THEN Adjust(acc, -25)
        ELSE IF credit_score >= 700 THEN Adjust(acc, 0)
        ELSE IF credit_score >= 650 THEN Adjust(acc, 50)
        ELSE [Adjust(acc, 100) EXCEPT !.lim = Times(@, 800)]

LoanHistoryFactor(acc, cd) ==
    LET loan_history_score == Get(cd, "loan_history_score", "good")
    IN  IF loan_history_score = "excellent"
        THEN [Adjust(acc, -30) EXCEPT !.fee = Times(@, 700)]
        ELSE IF loan_history_score = "good" THEN Adjust(acc, -10)
        ELSE IF loan_history_score = "poor" THEN Adjust(acc, 50)
        ELSE acc

\* the low-income tier leaves the limit alone
MonthlyIncomeFactor_KeepsLimit(acc, cd) ==
    LET monthly_income == Get(cd, "monthly_income", 0)
    IN  IF monthly_income >= 100
        THEN [Adjust(acc, -20) EXCEPT !.lim = Times(@, 1400)]
        ELSE IF monthly_income >= 75
        THEN [Adjust(acc, -10) EXCEPT !.lim = Times(@, 1200)]
        ELSE IF monthly_income < 30
        THEN Adjust(acc, 30)
        ELSE acc

MonthlyIncomeFactor(acc, cd) ==
    LET monthly_income == Get(cd, "monthly_income", 0)
    IN  IF monthly_income >= 100
        THEN [Adjust(acc, -20) EXCEPT !.lim = Times(@, 1400)]
        ELSE IF monthly_income >= 75
        THEN [Adjust(acc, -10) EXCEPT !.lim = Times(@, 1200)]
        ELSE IF monthly_income < 30
        THEN [Adjust(acc, 30) EXCEPT !.lim = Times(@, 900)]
        ELSE acc

EmploymentTypeFactor(acc, cd) ==
    LET employment_type == Get(cd, "employment_type", "salaried")
    IN  IF employment_type = "government" THEN Adjust(acc, -40)
        ELSE IF employment_type = "mnc" THEN Adjust(acc, -20)
        ELSE IF employment_type = "self_employed" THEN Adjust(acc, 30)
        ELSE IF employment_type = "business_owner" THEN Adjust(acc, 20)
        ELSE acc

\* the two deltas of the block are exchanged
JobStabilityFactor_Exchanged(acc, cd) ==
    LET job_stability_years == Get(cd, "job_stability_years", 2)
    IN  IF job_stability_years >= 3 THEN Adjust(acc, -20)
        ELSE IF job_stability_years < 1 THEN Adjust(acc, 10)
        ELSE acc

JobStabilityFactor(acc, cd) ==
    LET job_stability_years == Get(cd, "job_stability_years", 2)
    IN  IF job_stability_years >= 3 THEN Adjust(acc, -10)
        ELSE IF job_stability_years < 1 THEN Adjust(acc, 20)
        ELSE acc

LoanAmountFactor(acc, base_loan_amount) ==
    IF base_loan_amount >= 2000 THEN Adjust(acc, -25)
    ELSE IF base_loan_amount >= 1000 THEN Adjust(acc, -15)
    ELSE IF base_loan_amount < 200 THEN Adjust(acc, 20)
    ELSE acc

TenureFactor(acc, base_tenure) ==
    IF base_tenure <= 12 THEN Adjust(acc, -10)
    ELSE IF base_tenure >= 60 THEN Adjust(acc, 20)
    ELSE acc

FestiveSeasonFactor(acc, cd) ==
    LET is_festive_season == Get(cd, "is_festive_season", FALSE)
    IN  IF is_festive_season
        THEN [Adjust(acc, -15) EXCEPT !.fee = Times(@, 900)]
        ELSE acc

\* the incentive is given to customers who have loans
ExistingLoansFactor_Inverted(acc, cd) ==
    LET has_existing_loans == Get(cd, "has_existing_loans", FALSE)
    IN  IF has_existing_loans THEN Adjust(acc, -10) ELSE acc

ExistingLoansFactor(acc, cd) ==
    LET has_existing_loans == Get(cd, "has_existing_loans", FALSE)
    IN  IF ~has_existing_loans THEN Adjust(acc, -10) ELSE acc

\* lines 305-424: the factor blocks in source order
PricingFactors(cd, base_loan_amount, base_tenure) ==
    LET f1  == AccountAgeFactor(InitialFactors, cd)
        f2  == SalaryAccountFactor(f1, cd)
        f3  == BalanceFactor(f2, cd)
        f4  == CreditScoreFactor(f3, cd)
        f5  == LoanHistoryFactor(f4, cd)
        f6  == MonthlyIncomeFactor(f5, cd)
        f7  == EmploymentTypeFactor(f6, cd)
        f8  == JobStabilityFactor(f7, cd)
        f9  == LoanAmountFactor(f8, base_loan_amount)
        f10 == TenureFactor(f9, base_tenure)
        f11 == FestiveSeasonFactor(f10, cd)
    IN  ExistingLoansFactor(f11, cd)

BaseLoanAmount(cd, loan_amount) ==
    IF loan_amount > 0 THEN loan_amount ELSE Get(cd, "loan_offer", 0)

BaseTenure(cd, requested_tenure) ==
    IF requested_tenure > 0 THEN requested_tenure ELSE Get(cd, "tenure", 12)

BaseInterestRate_NoDefault(cd) == Get(cd, "interest_rate", 0)

BaseInterestRate(cd) == Get(cd, "interest_rate", 1200)

\* the lower bound is not applied
FinalInterestRate_NoFloor(base_interest_rate, rate_adjustment) ==
    Min(1800, base_interest_rate + rate_adjustment)

\* the adjustment is applied with the opposite sign
FinalInterestRate_Subtracts(base_interest_rate, rate_adjustment) ==
    Max(800, Min(1800, base_interest_rate - rate_adjustment))

FinalInterestRate(base_interest_rate, rate_adjustment) ==
    Max(800, Min(1800, base_interest_rate + rate_adjustment))

\* no fee is charged when the profile has none
BaseProcessingFee_NoDefault(cd, base_loan_amount) ==
    Get(cd, "processing_fee", 0)

\* processing_fee in rupees; 2 % of a loan of n thousand rupees is 20 n rupees
BaseProcessingFee(cd, base_loan_amount) ==
    Get(cd, "processing_fee", base_loan_amount * 20)

\* no dead band: a tag for every non-zero adjustment
ExplanationFactors_NoDeadBand(rate_adjustment, credit_score, is_salary_account, monthly_income) ==
    (IF rate_adjustment < 0 THEN <<"Excellent banking relationship">> ELSE <<>>)
    \o (IF credit_score >= 750 THEN <<"Strong credit profile">> ELSE <<>>)
    \o (IF is_salary_account THEN <<"Salary account holder">> ELSE <<>>)
    \o (IF monthly_income >= 75 THEN <<"High income bracket">> ELSE <<>>)
    \o (IF rate_adjustment > 0 THEN <<"Risk factors considered">> ELSE <<>>)

ExplanationFactors(rate_adjustment, credit_score, is_salary_account, monthly_income) ==
    (IF rate_adjustment < -10 THEN <<"Excellent banking relationship">> ELSE <<>>)
    \o (IF credit_score >= 750 THEN <<"Strong credit profile">> ELSE <<>>)
    \o (IF is_salary_account THEN <<"Salary account holder">> ELSE <<>>)
    \o (IF monthly_income >= 75 THEN <<"High income bracket">> ELSE <<>>)
    \o (IF rate_adjustment > 10 THEN <<"Risk factors considered">> ELSE <<>>)

MissingDataMessage ==
    [kind |-> "message",
     text |-> "Unable to calculate dynamic pricing. Missing essential customer data."]

PricingErrorMessage ==
    [kind |-> "message",
     text |-> "Unable to calculate personalized pricing at the moment. Please try again or contact our loan specialist."]

\* the attributes the factor blocks compare with a number
ComparedKeys ==
    {"account_age_years", "avg_monthly_balance", "credit_score",
     "monthly_income", "job_stability_years"}

(***************************************************************************)
(* The exception raised inside the try block of calculate_dynamic_pricing, *)
(* "none" when the block runs to a return statement.                       *)
(***************************************************************************)
PricingRaises(cd, loan_amount, requested_tenure) ==
    IF IsNone(cd) THEN "AttributeError"
    ELSE
    LET base_loan_amount == BaseLoanAmount(cd, loan_amount)
        base_tenure == BaseTenure(cd, requested_tenure)
        base_interest_rate == BaseInterestRate(cd)
    IN  IF base_loan_amount = 0 \/ base_interest_rate = 0 THEN "none"
        ELSE IF \/ \E k \in ComparedKeys : IsBlank(Get(cd, k, 0))
                \/ IsBlank(base_tenure)
        THEN "TypeError"
        ELSE IF LET f == PricingFactors(cd, base_loan_amount, base_tenure)
                IN  \/ EmiRaises(FinalInterestRate(base_interest_rate, f.ra),
                                 base_tenure)
                    \/ EmiRaises(base_interest_rate, base_tenure)
        THEN "ZeroDivisionError"
        ELSE "none"

\* the text returned names the exception
PricingFailure_NamesError(err) == [kind |-> "message", text |-> err]

\* the except clause: the text returned does not mention the exception
PricingFailure(err) == PricingErrorMessage

(***************************************************************************)
(* The value calculate_dynamic_pricing returns: one of the two fixed       *)
(* messages, or the pricing text, kept as the record of the quantities     *)
(* the text is formatted from.  max_eligible_amount is in rupees and       *)
(* final_processing_fee in thousandths of a rupee.                         *)
(***************************************************************************)
DynamicPricing(cd, loan_amount, requested_tenure) ==
    LET base_loan_amount == BaseLoanAmount(cd, loan_amount)
        base_tenure == BaseTenure(cd, requested_tenure)
        base_interest_rate == BaseInterestRate(cd)
        err == PricingRaises(cd, loan_amount, requested_tenure)
    IN  IF err # "none"
        THEN PricingFailure(err)
        ELSE IF base_loan_amount = 0 \/ base_interest_rate = 0
        THEN MissingDataMessage
        ELSE
        LET f == PricingFactors(cd, base_loan_amount, base_tenure)
            final_interest_rate == FinalInterestRate(base_interest_rate, f.ra)
        IN       [kind |-> "pricing",
                  base_interest_rate |-> base_interest_rate,
                  base_tenure |-> base_tenure,
                  rate_adjustment |-> f.ra,
                  final_interest_rate |-> final_interest_rate,
                  max_eligible_amount |-> base_loan_amount * f.lim,
                  final_processing_fee |->
                      BaseProcessingFee(cd, base_loan_amount) * f.fee,
                  final_emi |->
                      EmiTerm(base_loan_amount, final_interest_rate, base_tenure),
                  base_emi |->
                      EmiTerm(base_loan_amount, base_interest_rate, base_tenure),
                  explanation_factors |->
                      ExplanationFactors(f.ra, CreditScoreOf(cd),
                          Get(cd, "is_salary_account", FALSE),
                          Get(cd, "monthly_income", 0)),
                  processing_fee_multiplier |-> f.fee,
                  max_loan_multiplier |-> f.lim,
                  is_salary_account |-> Get(cd, "is_salary_account", FALSE),
                  is_festive_season |-> Get(cd, "is_festive_season", FALSE)]


(***************************************************************************)
(* calculate_emi: the fixed message when the expression raises, the        *)
(* breakdown otherwise.  No argument is validated before the expression    *)
(* is evaluated.                                                           *)
(***************************************************************************)
EmiErrorMessage ==
    [kind |-> "message",
     text |-> "Unable to calculate EMI. Please check the input parameters."]

EmiFailure(err) == EmiErrorMessage

EmiBreakdown(loan_amount, interest_rate, tenure_months) ==
    IF EmiRaises(interest_rate, tenure_months)
    THEN EmiFailure("ZeroDivisionError")
    ELSE [kind |-> "emi",
          loan_amount |-> loan_amount,
          interest_rate |-> interest_rate,
          tenure_months |-> tenure_months,
          emi |-> EmiTerm(loan_amount, interest_rate, tenure_months)]

(***************************************************************************)
(* get_customer_details: a projection of the profile.                      *)
(***************************************************************************)
DetailsErrorMessage ==
    [kind |-> "message",
     text |-> "Unable to retrieve customer details at the moment."]

DetailsFailure(err) == DetailsErrorMessage

CustomerDetails(cd, detail_type) ==
    IF IsNone(cd) THEN DetailsFailure("AttributeError")
    ELSE
    [kind |-> "details",
     detail_type |-> detail_type,
     value |->
        IF detail_type = "all"
        THEN <<Get(cd, "name", ""), Get(cd, "loan_offer", 0),
               Get(cd, "interest_rate", 0), Get(cd, "tenure", ""),
               Get(cd, "emi_amount", 0), Get(cd, "processing_fee", 0),
               Get(cd, "foreclosure_charges", 0), Get(cd, "offer_expiry", ""),
               Get(cd, "purpose", ""), Get(cd, "application_link", "")>>
        ELSE IF detail_type = "loan_offer" THEN <<Get(cd, "loan_offer", 0)>>
        ELSE IF detail_type = "interest_rate" THEN <<Get(cd, "interest_rate", 0)>>
        ELSE IF detail_type = "emi" THEN <<Get(cd, "emi_amount", 0)>>
        ELSE IF detail_type = "expiry"
        THEN <<Get(cd, "offer_expiry", "Not specified")>>
        ELSE <<Get(cd, detail_type, "Information not available")>>]

(***************************************************************************)
(* calculate_loan_savings                                                  *)
(***************************************************************************)
SavingsMissingMessage ==
    [kind |-> "message",
     text |-> "Unable to calculate savings. Missing loan parameters."]

SavingsErrorMessage ==
    [kind |-> "message",
     text |-> "Unable to calculate loan savings at the moment."]

TenureOptions == <<12, 24, 36, 60>>

\* the current tenure is not left out
RECURSIVE SelectTenures_KeepAll(_, _)
SelectTenures_KeepAll(s, tenure) ==
    IF s = <<>> THEN <<>>
    ELSE <<Head(s)>> \o SelectTenures_KeepAll(Tail(s), tenure)

\* the elements of s other than tenure, in order
RECURSIVE SelectTenures(_, _)
SelectTenures(s, tenure) ==
    IF s = <<>> THEN <<>>
    ELSE (IF Head(s) # tenure THEN <<Head(s)>> ELSE <<>>)
         \o SelectTenures(Tail(s), tenure)

\* the prepayment is not counted into the total paid
NewTotal_WithoutPrepayment(new_emi, tenure, prepayment_amount) ==
    [emi |-> new_emi, times |-> tenure, plus |-> 0]

\* new_emi * tenure + prepayment_amount, new_emi being a term
NewTotal(new_emi, tenure, prepayment_amount) ==
    [emi |-> new_emi, times |-> tenure, plus |-> prepayment_amount]

\* all([loan_amount, interest_rate, tenure]) is false
SavingsMissing(cd) ==
    LET tenure == Get(cd, "tenure", 12)
    IN  \/ Get(cd, "loan_offer", 0) = 0
        \/ Get(cd, "interest_rate", 0) = 0
        \/ tenure = 0
        \/ IsBlank(tenure)

\* the exception raised inside the try block of calculate_loan_savings
SavingsRaises(cd, prepayment_amount) ==
    IF IsNone(cd) THEN "AttributeError"
    ELSE IF SavingsMissing(cd) THEN "none"
    ELSE
    LET interest_rate == Get(cd, "interest_rate", 0)
        tenure == Get(cd, "tenure", 12)
        opts == SelectTenures(TenureOptions, tenure)
    IN  IF \/ EmiRaises(interest_rate, tenure)
           \/ /\ ~(prepayment_amount > 0)
              /\ \E i \in 1..Len(opts) : EmiRaises(interest_rate, opts[i])
        THEN "ZeroDivisionError"
        ELSE "none"

SavingsFailure(err) == SavingsErrorMessage

LoanSavings(cd, prepayment_amount) ==
    LET loan_amount == Get(cd, "loan_offer", 0)
        interest_rate == Get(cd, "interest_rate", 0)
        tenure == Get(cd, "tenure", 12)
        err == SavingsRaises(cd, prepayment_amount)
    IN  IF err # "none"
        THEN SavingsFailure(err)
        ELSE IF SavingsMissing(cd)
        THEN SavingsMissingMessage
        ELSE IF prepayment_amount > 0
        THEN LET remaining_principal == loan_amount - prepayment_amount
                 new_emi == EmiTerm(remaining_principal, interest_rate, tenure)
             IN  [kind |-> "savings",
                  current_emi |-> EmiTerm(loan_amount, interest_rate, tenure),
                  prepayment |->
                      IF remaining_principal > 0
                      THEN <<[prepayment_amount |-> prepayment_amount,
                              new_emi |-> new_emi,
                              new_total |-> NewTotal(new_emi, tenure,
                                                     prepayment_amount)]>>
                      ELSE <<>>,
                  tenures |-> <<>>]
        ELSE LET opts == SelectTenures(TenureOptions, tenure)
             IN  [kind |-> "savings",
                  current_emi |-> EmiTerm(loan_amount, interest_rate, tenure),
                  prepayment |-> <<>>,
                  tenures |->
                      [i \in 1..Len(opts) |->
                          [new_tenure |-> opts[i],
                           new_emi |-> EmiTerm(loan_amount, interest_rate,
                                               opts[i])]]]

(***************************************************************************)
(* get_rate_improvement_suggestions.  A suggestion is kept as the name of  *)
(* the action it proposes; potential_savings is the sum the source         *)
(* accumulates while it appends the suggestions.                           *)
(***************************************************************************)
SuggestionsErrorMessage ==
    [kind |-> "message",
     text |-> "Unable to generate rate improvement suggestions at the moment."]

\* potential_reduction of the credit-score suggestion
CreditScoreReduction(credit_score) ==
    LET target_score == Min(850, credit_score + 50)
    IN  IF target_score >= 800 THEN 50 ELSE 25

Suggestions(cd) ==
    (IF Get(cd, "credit_score", 750) < 800 THEN <<"credit_score">> ELSE <<>>)
    \o (IF ~Get(cd, "is_salary_account", FALSE)
        THEN <<"salary_account">> ELSE <<>>)
    \o (IF Get(cd, "avg_monthly_balance", 0) < 50
        THEN <<"account_balance">> ELSE <<>>)
    \o (IF Get(cd, "loan_offer", 0) < 1000 THEN <<"loan_amount">> ELSE <<>>)
    \o (IF Get(cd, "tenure", 12) > 36 THEN <<"tenure">> ELSE <<>>)

PotentialSavings(cd) ==
    LET credit_score == Get(cd, "credit_score", 750)
    IN  (IF credit_score < 800 THEN CreditScoreReduction(credit_score) ELSE 0)
        + (IF ~Get(cd, "is_salary_account", FALSE) THEN 30 ELSE 0)
        + (IF Get(cd, "avg_monthly_balance", 0) < 50 THEN 20 ELSE 0)

NewRate(current_rate, potential_savings) ==
    Max(800, current_rate - potential_savings)

\* the exception raised inside the try block of the suggestions tool
SuggestionsRaises(cd) ==
    IF IsNone(cd) THEN "AttributeError"
    ELSE IF \/ IsBlank(Get(cd, "credit_score", 750))
            \/ IsBlank(Get(cd, "avg_monthly_balance", 0))
            \/ IsBlank(Get(cd, "tenure", 12))
    THEN "TypeError"
    ELSE
    LET current_rate == Get(cd, "interest_rate", 1200)
        tenure == Get(cd, "tenure", 12)
        potential_savings == PotentialSavings(cd)
    IN  IF /\ Suggestions(cd) # <<>>
           /\ potential_savings > 0
           /\ \/ EmiRaises(current_rate, tenure)
              \/ EmiRaises(NewRate(current_rate, potential_savings), tenure)
        THEN "ZeroDivisionError"
        ELSE "none"

SuggestionsFailure(err) == SuggestionsErrorMessage

RateImprovementSuggestions(cd) ==
    LET current_rate == Get(cd, "interest_rate", 1200)
        loan_amount == Get(cd, "loan_offer", 0)
        tenure == Get(cd, "tenure", 12)
        err == SuggestionsRaises(cd)
    IN  IF err # "none"
        THEN SuggestionsFailure(err)
        ELSE
        LET suggestions == Suggestions(cd)
            potential_savings == PotentialSavings(cd)
            new_rate == NewRate(current_rate, potential_savings)
        IN  IF suggestions = <<>>
            THEN [kind |-> "optimal", current_rate |-> current_rate]
            ELSE IF potential_savings > 0
            THEN [kind |-> "roadmap",
                  current_rate |-> current_rate,
                  new_rate |-> new_rate,
                  potential_savings |-> potential_savings,
                  current_emi |-> EmiTerm(loan_amount, current_rate, tenure),
                  new_emi |-> EmiTerm(loan_amount, new_rate, tenure),
                  suggestions |-> suggestions]
            ELSE [kind |-> "suggestions",
                  potential_savings |-> potential_savings,
                  suggestions |-> suggestions]


(***************************************************************************)
(* The profiles and the tool arguments the model explores.  A profile is   *)
(* one of the base profiles with at most MaxVaried keys set to another     *)
(* value of the key's range or removed.                                    *)
(***************************************************************************)
MaxVaried == 1

ProfileKeys ==
    {"loan_offer", "interest_rate", "tenure", "processing_fee",
     "account_age_years", "is_salary_account", "avg_monthly_balance",
     "credit_score", "loan_history_score", "monthly_income",
     "employment_type", "job_stability_years", "is_festive_season",
     "has_existing_loans"}

ValuesOf(k) ==
    CASE k = "loan_offer" -> {0, 150, 199, 200, 999, 1000, 1999, 2000}
      [] k = "interest_rate" -> {0, 750, 800, 850, 1050, 1700, 1800, 1850}
      [] k = "tenure" -> {0, 12, 13, 24, 36, 59, 60}
      [] k = "processing_fee" -> {0, 5000}
      [] k = "account_age_years" -> {0, 1, 2, 4, 5}
      [] k = "is_salary_account" -> BOOLEAN
      [] k = "avg_monthly_balance" -> {5, 9, 10, 49, 50, 99, 100}
      [] k = "credit_score" -> {649, 650, 699, 700, 749, 750, 799, 800}
      [] k = "loan_history_score" -> {"excellent", "good", "average", "poor"}
      [] k = "monthly_income" -> {29, 30, 74, 75, 99, 100}
      [] k = "employment_type" ->
            {"salaried", "government", "mnc", "self_employed", "business_owner"}
      [] k = "job_stability_years" -> {0, 1, 2, 3}
      [] k = "is_festive_season" -> BOOLEAN
      [] k = "has_existing_loans" -> BOOLEAN

\* the profile of the worked example of the specification's section 8
ExampleProfile ==
    [loan_offer |-> 500, interest_rate |-> 1050, tenure |-> 24,
     credit_score |-> 820, is_salary_account |-> TRUE,
     avg_monthly_balance |-> 120, monthly_income |-> 90,
     employment_type |-> "salaried", account_age_years |-> 6]

\* every discount fires
BestProfile ==
    [loan_offer |-> 2000, interest_rate |-> 850, tenure |-> 12,
     processing_fee |-> 5000, account_age_years |-> 5,
     is_salary_account |-> TRUE, avg_monthly_balance |-> 100,
     credit_score |-> 800, loan_history_score |-> "excellent",
     monthly_income |-> 100, employment_type |-> "government",
     job_stability_years |-> 3, is_festive_season |-> TRUE,
     has_existing_loans |-> FALSE]

\* every premium fires
WorstProfile ==
    [loan_offer |-> 150, interest_rate |-> 1700, tenure |-> 60,
     processing_fee |-> 5000, account_age_years |-> 0,
     is_salary_account |-> FALSE, avg_monthly_balance |-> 5,
     credit_score |-> 649, loan_history_score |-> "poor",
     monthly_income |-> 29, employment_type |-> "self_employed",
     job_stability_years |-> 0, is_festive_season |-> FALSE,
     has_existing_loans |-> TRUE]

\* no factor fires
NeutralProfile ==
    [loan_offer |-> 500, interest_rate |-> 1050, tenure |-> 24,
     account_age_years |-> 1, is_salary_account |-> FALSE,
     avg_monthly_balance |-> 20, credit_score |-> 720,
     loan_history_score |-> "average", monthly_income |-> 50,
     employment_type |-> "salaried", job_stability_years |-> 2,
     is_festive_season |-> FALSE, has_existing_loans |-> TRUE]

\* the empty dict
EmptyProfile == [k \in {} |-> 0]

BaseProfiles ==
    {ExampleProfile, BestProfile, WorstProfile, NeutralProfile, EmptyProfile}

OneKeyVaried(p) ==
    UNION {{Put(p, k, v) : v \in ValuesOf(k)} \cup {Del(p, k)} : k \in ProfileKeys}

RECURSIVE Varied(_, _)
Varied(S, n) ==
    IF n = 0 THEN S
    ELSE LET V == Varied(S, n - 1) IN V \cup UNION {OneKeyVaried(p) : p \in V}

Profiles == Varied(BaseProfiles, MaxVaried)

(***************************************************************************)
(* _clean_customer_data (src/util/utils.py).  data is the CSV row as a     *)
(* dict; a missing cell holds NaN.  A missing cell becomes the default of  *)
(* numeric_fields or of string_fields when the column is listed there and  *)
(* the empty string otherwise; any other cell keeps its value (.item(),    *)
(* float() and str().strip() do not change the numbers and the strings     *)
(* explored).                                                              *)
(***************************************************************************)
NaN == -999998

StringColumns ==
    {"name", "customer_id", "offer_expiry", "purpose", "application_link",
     "loan_history_score", "employment_type"}

BooleanColumns == {"is_salary_account", "is_festive_season", "has_existing_loans"}

NaNOf(key) == IF key \in StringColumns THEN "nan" ELSE NaN

\* pd.isna(value) or value is None
IsNa(key, value) == key \notin BooleanColumns /\ value = NaNOf(key)

\* the keys of numeric_fields; each default is zero
numeric_fields ==
    {"loan_offer", "emi_amount", "processing_fee", "foreclosure_charges",
     "interest_rate", "minimumTenure", "maximumTenure", "apr"}

\* the keys of string_fields; each default is ''
string_fields ==
    {"name", "customer_id", "offer_expiry", "purpose", "application_link"}

\* the value '' under key
EmptyString(key) == IF key \in StringColumns THEN "" ELSE Blank

CleanCustomerData(data) ==
    [key \in DOMAIN data |->
        IF IsNa(key, data[key])
        THEN IF key \in numeric_fields THEN 0
             ELSE IF key \in string_fields THEN ""
             ELSE EmptyString(key)
        ELSE data[key]]

\* p with one cell changed, missing, or its column absent
OneCellVaried(p) ==
    OneKeyVaried(p)
    \cup {Put(p, k, NaNOf(k)) : k \in ProfileKeys \ BooleanColumns}

RECURSIVE RowsVaried(_, _)
RowsVaried(S, n) ==
    IF n = 0 THEN S
    ELSE LET V == RowsVaried(S, n - 1) IN V \cup UNION {OneCellVaried(p) : p \in V}

\* the CSV rows explored
RawRows == RowsVaried(BaseProfiles, MaxVaried)

SessionProfiles == BaseProfiles

LoanAmounts == {0, 2500}

RequestedTenures == {0, 12, 60}

EmiAmounts == {-100, 0, 100}

EmiRates == {-1000, 0, 1050}

EmiTenures == {-12, 0, 12, 24}

DetailTypes == {"all", "loan_offer", "interest_rate", "emi", "expiry", "credit_score"}

PrepaymentAmounts == {0, 100, 500, 5000}

(***************************************************************************)
(* State.  row is the CSV row of the customer, as read by                  *)
(* load_customer_data, and customer_data is                                *)
(* st.session_state['customer_data'], the dict every tool reads: the row   *)
(* cleaned by _clean_customer_data.  last is the latest tool invocation with the value it *)
(* returned.  memo is a history variable: <<>>, or an earlier invocation   *)
(* of calculate_dynamic_pricing with the profile it ran on and whether     *)
(* another tool has been invoked since.                                    *)
(***************************************************************************)
NoCall == [tool |-> "none", args |-> <<>>, result |-> [kind |-> "none"]]

Call(tool, args, result) == [tool |-> tool, args |-> args, result |-> result]

Init ==
    /\ row \in SessionProfiles
    /\ customer_data = CleanCustomerData(row)
    /\ last = NoCall
    /\ memo = <<>>
    /\ session = InitialSession

InitPricing ==
    /\ row \in Profiles
    /\ customer_data = CleanCustomerData(row)
    /\ last = NoCall
    /\ memo = <<>>
    /\ session = InitialSession

\* the tenure of a preceding calculate_emi invocation is carried over
PricingCall_StickyTenure(loan_amount, requested_tenure) ==
    /\ last' = Call("calculate_dynamic_pricing",
                    <<loan_amount, requested_tenure>>,
                    DynamicPricing(customer_data, loan_amount,
                        IF last.tool = "calculate_emi"
                        THEN last.args[3] ELSE requested_tenure))
    /\ UNCHANGED <<row, customer_data, session>>

\* what an invocation of calculate_dynamic_pricing does to the session
PricingCall(loan_amount, requested_tenure) ==
    /\ last' = Call("calculate_dynamic_pricing",
                    <<loan_amount, requested_tenure>>,
                    DynamicPricing(customer_data, loan_amount, requested_tenure))
    /\ UNCHANGED <<row, customer_data, session>>

calculate_dynamic_pricing(loan_amount, requested_tenure) ==
    /\ PricingCall(loan_amount, requested_tenure)
    /\ \E keep \in BOOLEAN :
          memo' = IF keep /\ memo # <<>>
                  THEN memo
                  ELSE <<[profile |-> customer_data, call |-> last',
                          others |-> FALSE]>>

\* the history variable after an invocation of another tool
Interleaved == IF memo = <<>> THEN memo ELSE <<[memo[1] EXCEPT !.others = TRUE]>>

calculate_emi(loan_amount, interest_rate, tenure_months) ==
    /\ last' = Call("calculate_emi",
                    <<loan_amount, interest_rate, tenure_months>>,
                    EmiBreakdown(loan_amount, interest_rate, tenure_months))
    /\ memo' = Interleaved
    /\ UNCHANGED <<row, customer_data, session>>

get_customer_details(detail_type) ==
    /\ last' = Call("get_customer_details", <<detail_type>>,
                    CustomerDetails(customer_data, detail_type))
    /\ memo' = Interleaved
    /\ UNCHANGED <<row, customer_data, session>>

\* the prepayment is written back to the profile's loan_offer
calculate_loan_savings_WritesBack(prepayment_amount) ==
    /\ last' = Call("calculate_loan_savings", <<prepayment_amount>>,
                    LoanSavings(customer_data, prepayment_amount))
    /\ memo' = Interleaved
    /\ customer_data' =
          IF "loan_offer" \in DOMAIN customer_data
          THEN [customer_data EXCEPT !["loan_offer"] = @ - prepayment_amount]
          ELSE customer_data
    /\ UNCHANGED <<row, session>>

calculate_loan_savings(prepayment_amount) ==
    /\ last' = Call("calculate_loan_savings", <<prepayment_amount>>,
                    LoanSavings(customer_data, prepayment_amount))
    /\ memo' = Interleaved
    /\ UNCHANGED <<row, customer_data, session>>

get_rate_improvement_suggestions ==
    /\ last' = Call("get_rate_improvement_suggestions", <<>>,
                    RateImprovementSuggestions(customer_data))
    /\ memo' = Interleaved
    /\ UNCHANGED <<row, customer_data, session>>

\* the five tool functions of the module, called in any order (the session
\* specification below calls only those of LOAN_TOOLS, through the agent)
Next ==
    \/ \E la \in LoanAmounts, rt \in RequestedTenures :
          calculate_dynamic_pricing(la, rt)
    \/ \E p \in EmiAmounts, r \in EmiRates, t \in EmiTenures :
          calculate_emi(p, r, t)
    \/ \E d \in DetailTypes : get_customer_details(d)
    \/ \E a \in PrepaymentAmounts : calculate_loan_savings(a)
    \/ get_rate_improvement_suggestions

Spec == Init /\ [][Next]_vars

(***************************************************************************)
(* The pricing engine alone, over every profile of Profiles.               *)
(***************************************************************************)
NextPricing ==
    \E la \in LoanAmounts, rt \in RequestedTenures :
        PricingCall(la, rt) /\ UNCHANGED memo

SpecPricing == InitPricing /\ [][NextPricing]_vars

(***************************************************************************)
(* The factor blocks of calculate_dynamic_pricing one at a time, in source *)
(* order.  Each step runs the next block on the accumulators; the          *)
(* attribute the block reads may hold any value of its range or be absent, *)
(* so the twelve steps range over every combination of tiers.  Only calls  *)
(* that get as far as the factor blocks are followed (a resolved loan      *)
(* amount above zero).  customer_data holds the attribute the block read.  *)
(***************************************************************************)
FactorBlockKeys ==
    <<"account_age_years", "is_salary_account", "avg_monthly_balance",
      "credit_score", "loan_history_score", "monthly_income",
      "employment_type", "job_stability_years", "loan_offer", "tenure",
      "is_festive_season", "has_existing_loans">>

AttributeChoices(k) == {EmptyProfile} \cup {Put(EmptyProfile, k, v) : v \in ValuesOf(k)}

FactorBlock(n, acc, cd, loan_amount, requested_tenure) ==
    CASE n = 1  -> AccountAgeFactor(acc, cd)
      [] n = 2  -> SalaryAccountFactor(acc, cd)
      [] n = 3  -> BalanceFactor(acc, cd)
      [] n = 4  -> CreditScoreFactor(acc, cd)
      [] n = 5  -> LoanHistoryFactor(acc, cd)
      [] n = 6  -> MonthlyIncomeFactor(acc, cd)
      [] n = 7  -> EmploymentTypeFactor(acc, cd)
      [] n = 8  -> JobStabilityFactor(acc, cd)
      [] n = 9  -> LoanAmountFactor(acc, BaseLoanAmount(cd, loan_amount))
      [] n = 10 -> TenureFactor(acc, BaseTenure(cd, requested_tenure))
      [] n = 11 -> FestiveSeasonFactor(acc, cd)
      [] OTHER  -> ExistingLoansFactor(acc, cd)

InitStacking ==
    /\ row = EmptyProfile
    /\ customer_data = EmptyProfile
    /\ last = Call("factor_block", <<0>>, InitialFactors)
    /\ memo = <<>>
    /\ session = InitialSession

NextFactorBlock ==
    LET n == last.args[1] + 1
    IN  /\ n <= Len(FactorBlockKeys)
        /\ \E cd \in AttributeChoices(FactorBlockKeys[n]),
              la \in LoanAmounts, rt \in RequestedTenures :
              /\ n = 9 => BaseLoanAmount(cd, la) > 0
              /\ customer_data' = cd
              /\ row' = cd
              /\ last' = Call("factor_block", <<n>>,
                              FactorBlock(n, last.result, cd, la, rt))
        /\ UNCHANGED <<memo, session>>

SpecStacking == InitStacking /\ [][NextFactorBlock]_vars

(***************************************************************************)
(* The five tools over every profile the loader produces from the rows of  *)
(* RawRows, and over a session whose customer_data is None (as it is       *)
(* before login and after logout, when no row has been loaded).            *)
(***************************************************************************)
InitTools ==
    /\ \/ row \in RawRows /\ customer_data = CleanCustomerData(row)
       \/ row = NoneProfile /\ customer_data = NoneProfile
    /\ last = NoCall
    /\ memo = <<>>
    /\ session = InitialSession

ToolsEmiArguments == {<<100, 1050, 12>>, <<100, 0, 12>>, <<100, 1050, 0>>}

NextTools ==
    \/ \E la \in LoanAmounts, rt \in RequestedTenures :
          PricingCall(la, rt) /\ UNCHANGED memo
    \/ \E a \in ToolsEmiArguments : calculate_emi(a[1], a[2], a[3])
    \/ \E d \in {"all", "credit_score"} : get_customer_details(d)
    \/ \E a \in PrepaymentAmounts : calculate_loan_savings(a)
    \/ get_rate_improvement_suggestions

SpecTools == InitTools /\ [][NextTools]_vars


(***************************************************************************)
(* Properties.                                                             *)
(***************************************************************************)
IsPricingCall == last.tool = "calculate_dynamic_pricing"

Priced == IsPricingCall /\ last.result.kind = "pricing"

\* C1: whenever calculate_dynamic_pricing returns a pricing result, its
\* final_interest_rate lies in [8.0, 18.0].
C1_FinalRateWithinBounds ==
    Priced =>
        /\ last.result.final_interest_rate >= 800
        /\ last.result.final_interest_rate <= 1800

\* a pricing whose adjusted rate fell below 8.0 and was raised to it
C1_Witness ==
    /\ Priced
    /\ last.result.base_interest_rate + last.result.rate_adjustment < 800
    /\ last.result.final_interest_rate = 800

IsExampleCall ==
    /\ IsPricingCall
    /\ customer_data = ExampleProfile
    /\ last.args = <<0, 0>>

\* C2 as stated: for the example profile and an empty request,
\* rate_adjustment = -2.3 and final_interest_rate = 8.2.
C2_ExampleAsStated ==
    IsExampleCall =>
        /\ last.result.kind = "pricing"
        /\ last.result.rate_adjustment = -230
        /\ last.result.final_interest_rate = 820

\* C2 amended: for the example profile and an empty request,
\* rate_adjustment = -2.0 and final_interest_rate = 8.5.
C2_ExampleAmended ==
    IsExampleCall =>
        /\ last.result.kind = "pricing"
        /\ last.result.rate_adjustment = -200
        /\ last.result.final_interest_rate = 850

C2_Witness == IsExampleCall /\ last.result.kind = "pricing"

(***************************************************************************)
(* The factor table of the specification's section 4.2: each group is a    *)
(* list of rows (condition, delta) in the stated priority order.  The      *)
(* conditions are over the value the engine reads for the attribute (an    *)
(* absent attribute is read with the default of the source's .get).        *)
(***************************************************************************)
Row(c, d) == [c |-> c, d |-> d]

RECURSIVE FirstMatch(_)
FirstMatch(rows) ==
    IF rows = <<>> THEN 0
    ELSE IF Head(rows).c THEN Head(rows).d
    ELSE FirstMatch(Tail(rows))

TableGroups(cd, loan, tenure) ==
    LET age == Get(cd, "account_age_years", 0)
        sal == Get(cd, "is_salary_account", FALSE)
        bal == Get(cd, "avg_monthly_balance", 0)
        cs  == Get(cd, "credit_score", 750)
        lh  == Get(cd, "loan_history_score", "good")
        inc == Get(cd, "monthly_income", 0)
        emp == Get(cd, "employment_type", "salaried")
        job == Get(cd, "job_stability_years", 2)
        fes == Get(cd, "is_festive_season", FALSE)
        hel == Get(cd, "has_existing_loans", FALSE)
    IN  [account_age |->
            <<Row(age >= 5, -50), Row(age >= 2 /\ age < 5, -25), Row(age < 1, 25)>>,
         salary_account |-> <<Row(sal, -30)>>,
         avg_balance |->
            <<Row(bal >= 100, -40), Row(bal >= 50, -20), Row(bal < 10, 30)>>,
         credit_score |->
            <<Row(cs >= 800, -50), Row(cs >= 750, -25), Row(cs >= 700, 0),
              Row(cs >= 650, 50), Row(cs < 650, 100)>>,
         loan_history |->
            <<Row(lh = "excellent", -30), Row(lh = "good", -10),
              Row(lh = "poor", 50)>>,
         monthly_income |->
            <<Row(inc >= 100, -20), Row(inc >= 75, -10), Row(inc < 30, 30)>>,
         employment_type |->
            <<Row(emp = "government", -40), Row(emp = "mnc", -20),
              Row(emp = "self_employed", 30), Row(emp = "business_owner", 20)>>,
         job_stability |-> <<Row(job >= 3, -10), Row(job < 1, 20)>>,
         loan_amount |->
            <<Row(loan >= 2000, -25), Row(loan >= 1000, -15), Row(loan < 200, 20)>>,
         tenure |-> <<Row(tenure <= 12, -10), Row(tenure >= 60, 20)>>,
         festive_season |-> <<Row(fes, -15)>>,
         no_existing_loans |-> <<Row(~hel, -10)>>]

RECURSIVE SumOver(_, _)
SumOver(f, S) ==
    IF S = {} THEN 0
    ELSE LET x == CHOOSE y \in S : TRUE IN f[x] + SumOver(f, S \ {x})

TableDeltas(cd, loan, tenure) ==
    LET g == TableGroups(cd, loan, tenure)
    IN  [k \in DOMAIN g |-> FirstMatch(g[k])]

\* C3: rate_adjustment is the sum, over the twelve factor groups, of the delta
\* of the first matching row of the group in the factor table (0 for a group
\* with no matching row), each group on its own.
C3_AdjustmentIsSumOfGroups ==
    Priced =>
        LET loan == IF last.args[1] > 0 THEN last.args[1]
                    ELSE Get(customer_data, "loan_offer", 0)
            d == TableDeltas(customer_data, loan, last.result.base_tenure)
        IN  /\ Cardinality(DOMAIN d) = 12
            /\ last.result.rate_adjustment = SumOver(d, DOMAIN d)

\* a pricing in which one group adds a premium, another a discount and a
\* third matches no row
C3_Witness ==
    /\ Priced
    /\ LET d == TableDeltas(customer_data, 500, last.result.base_tenure)
       IN  d.account_age > 0 /\ d.credit_score < 0 /\ d.employment_type = 0

LoanResolvesToZero ==
    last.args[1] <= 0 /\ Get(customer_data, "loan_offer", 0) = 0

IsEmiCall == last.tool = "calculate_emi"

\* the EMI of a zero-rate loan, p / t, as an EMI term
ZeroRateEmi(p, t) == EmiTerm(p, 0, t)

\* C5: for principal p >= 0 and tenure t > 0, calculate_emi with interest rate 0
\* returns a breakdown whose EMI is p / t, not the failure message.
C5_ZeroRateEmi ==
    (IsEmiCall /\ last.args[1] >= 0 /\ last.args[2] = 0 /\ last.args[3] > 0)
        => /\ last.result.kind = "emi"
           /\ last.result.emi = ZeroRateEmi(last.args[1], last.args[3])

\* C6: calculate_emi returns the failure message, and no breakdown, whenever
\* tenure_months <= 0 or loan_amount < 0 or interest_rate < 0.
C6_InvalidParametersRejected ==
    (IsEmiCall /\ (last.args[3] <= 0 \/ last.args[1] < 0 \/ last.args[2] < 0))
        => last.result = EmiErrorMessage

HigherScores(c) == {x \in ValuesOf("credit_score") \cup {820, 850, 900} : x > c}

\* C8: with every other attribute and the request fixed, a higher credit_score
\* never gives a higher rate_adjustment.
C8_CreditScoreMonotone ==
    (Priced /\ "credit_score" \in DOMAIN customer_data) =>
        \A c \in HigherScores(customer_data.credit_score) :
            LET r == DynamicPricing(Put(customer_data, "credit_score", c),
                                    last.args[1], last.args[2])
            IN  /\ r.kind = "pricing"
                /\ r.rate_adjustment <= last.result.rate_adjustment

\* a pricing at score 649 that every tier boundary above it lowers
C8_Witness ==
    /\ Priced
    /\ "credit_score" \in DOMAIN customer_data
    /\ customer_data.credit_score = 649
    /\ \A c \in {650, 700, 750, 800} :
          DynamicPricing(Put(customer_data, "credit_score", c),
                         last.args[1], last.args[2]).rate_adjustment
          < DynamicPricing(Put(customer_data, "credit_score", c - 1),
                           last.args[1], last.args[2]).rate_adjustment

SameAsMemo ==
    /\ memo # <<>>
    /\ IsPricingCall
    /\ memo[1].profile = customer_data
    /\ memo[1].call.args = last.args

C10_AbsentScoreIs750 ==
    (IsPricingCall /\ "credit_score" \notin DOMAIN customer_data) =>
        last.result = DynamicPricing(Put(customer_data, "credit_score", 750),
                                     last.args[1], last.args[2])

\* a pricing result for a profile without credit_score
C10_Witness == Priced /\ "credit_score" \notin DOMAIN customer_data

(***************************************************************************)
(* Absent and missing attributes.                                          *)
(***************************************************************************)
RiskAttributes ==
    {"account_age_years", "avg_monthly_balance", "credit_score",
     "monthly_income", "job_stability_years"}

\* the cell of a risk attribute is missing in the source row
HasMissingRiskCell(data) ==
    \E k \in RiskAttributes : k \in DOMAIN data /\ IsNa(k, data[k])

\* C11: for every profile the loader produced from a row in which the cell
\* of a risk or relationship attribute is missing, calculate_dynamic_pricing
\* (given a loan amount and an interest rate to price) returns a pricing
\* result and never the fixed failure message.
C11_MissingCellStillPriced ==
    (/\ IsPricingCall
     /\ HasMissingRiskCell(row)
     /\ ~LoanResolvesToZero
     /\ BaseInterestRate(customer_data) # 0)
    => /\ last.result.kind = "pricing"
       /\ last.result # PricingErrorMessage

\* the attributes a factor group of the engine reads from the profile
FactorAttributes ==
    RiskAttributes \cup
    {"is_salary_account", "loan_history_score", "employment_type",
     "is_festive_season", "has_existing_loans"}

\* what the factor group of attribute k adds to untouched accumulators
GroupContribution(k, cd) ==
    CASE k = "account_age_years" -> AccountAgeFactor(InitialFactors, cd)
      [] k = "is_salary_account" -> SalaryAccountFactor(InitialFactors, cd)
      [] k = "avg_monthly_balance" -> BalanceFactor(InitialFactors, cd)
      [] k = "credit_score" -> CreditScoreFactor(InitialFactors, cd)
      [] k = "loan_history_score" -> LoanHistoryFactor(InitialFactors, cd)
      [] k = "monthly_income" -> MonthlyIncomeFactor(InitialFactors, cd)
      [] k = "employment_type" -> EmploymentTypeFactor(InitialFactors, cd)
      [] k = "job_stability_years" -> JobStabilityFactor(InitialFactors, cd)
      [] k = "is_festive_season" -> FestiveSeasonFactor(InitialFactors, cd)
      [] k = "has_existing_loans" -> ExistingLoansFactor(InitialFactors, cd)

\* zero for a numeric attribute, empty for an enum, false for a flag
ZeroOf(k) ==
    IF k \in BooleanColumns THEN FALSE
    ELSE IF k \in StringColumns THEN ""
    ELSE 0

\* C12: an attribute absent from the profile is priced neutrally: it is
\* treated as zero (numeric) or empty (enum), and its factor group
\* contributes a rate delta of 0, a fee multiplier of 1 and a limit
\* multiplier of 1.
C12_AbsentAttributeNeutral ==
    Priced =>
        \A k \in FactorAttributes \ DOMAIN customer_data :
            /\ GroupContribution(k, customer_data) = InitialFactors
            /\ last.result =
                 DynamicPricing(Put(customer_data, k, ZeroOf(k)),
                                last.args[1], last.args[2])

(***************************************************************************)
(* calculate_loan_savings.                                                 *)
(***************************************************************************)
IsSavingsCall == last.tool = "calculate_loan_savings"

\* the profile holds a non-zero loan_offer, interest_rate and tenure
HasLoanParameters(cd) ==
    /\ {"loan_offer", "interest_rate", "tenure"} \subseteq DOMAIN cd
    /\ cd["loan_offer"] # 0
    /\ cd["interest_rate"] # 0
    /\ cd["tenure"] # 0
    /\ ~IsBlank(cd["tenure"])

\* the tenures among 12, 24, 36, 60 other than tenure
AlternativeTenures(tenure) == {12, 24, 36, 60} \ {tenure}

\* C13: calculate_loan_savings with prepayment_amount = 0 on a profile with
\* non-zero loan_offer, interest_rate and tenure emits no prepayment
\* comparison and exactly one tenure comparison for each tenure of
\* {12, 24, 36, 60} other than the current tenure: four when the current
\* tenure is not in the set, three when it is.
C13_TenureComparisons ==
    (IsSavingsCall /\ last.args[1] = 0 /\ HasLoanParameters(customer_data))
    => LET r == last.result
           tenure == customer_data["tenure"]
       IN  /\ r.kind = "savings"
           /\ r.prepayment = <<>>
           /\ {r.tenures[i].new_tenure : i \in 1..Len(r.tenures)}
                 = AlternativeTenures(tenure)
           /\ Len(r.tenures) =
                 IF tenure \in {12, 24, 36, 60} THEN 3 ELSE 4

C13_Witness ==
    /\ IsSavingsCall
    /\ last.args[1] = 0
    /\ HasLoanParameters(customer_data)
    /\ customer_data["tenure"] = 24
    /\ Len(last.result.tenures) = 3

\* C14 as stated: for every prepayment_amount > 0 on a profile with non-zero
\* loan_offer, interest_rate and tenure, calculate_loan_savings returns a
\* comparison with the reduced principal in which new_total is
\* new_emi * tenure + prepayment_amount, also when prepayment_amount is
\* equal to or larger than loan_offer.
C14_PrepaymentAsStated ==
    (IsSavingsCall /\ last.args[1] > 0 /\ HasLoanParameters(customer_data))
    => LET r == last.result
           cd == customer_data
           new_emi == EmiTerm(cd["loan_offer"] - last.args[1],
                              cd["interest_rate"], cd["tenure"])
       IN  /\ r.kind = "savings"
           /\ Len(r.prepayment) = 1
           /\ r.prepayment[1].new_emi = new_emi
           /\ r.prepayment[1].new_total =
                 [emi |-> new_emi, times |-> cd["tenure"],
                  plus |-> last.args[1]]

\* C14 amended: for every prepayment_amount > 0 smaller than loan_offer the
\* tool returns that comparison, with new_total = new_emi * tenure +
\* prepayment_amount; for a prepayment_amount equal to or larger than
\* loan_offer it returns the current loan structure alone, with no
\* prepayment comparison; in neither case a tenure comparison.
C14_PrepaymentAmended ==
    (IsSavingsCall /\ last.args[1] > 0 /\ HasLoanParameters(customer_data))
    => LET r == last.result
           cd == customer_data
           new_emi == EmiTerm(cd["loan_offer"] - last.args[1],
                              cd["interest_rate"], cd["tenure"])
       IN  /\ r.kind = "savings"
           /\ r.tenures = <<>>
           /\ IF last.args[1] < cd["loan_offer"]
              THEN /\ Len(r.prepayment) = 1
                   /\ r.prepayment[1].new_emi = new_emi
                   /\ r.prepayment[1].new_total =
                         [emi |-> new_emi, times |-> cd["tenure"],
                          plus |-> last.args[1]]
              ELSE r.prepayment = <<>>

C14_Witness ==
    /\ IsSavingsCall
    /\ last.args[1] = 100
    /\ customer_data = ExampleProfile
    /\ Len(last.result.prepayment) = 1
    /\ last.result.prepayment[1].new_total.plus = 100

(***************************************************************************)
(* get_rate_improvement_suggestions.                                       *)
(***************************************************************************)
IsSuggestionsCall == last.tool = "get_rate_improvement_suggestions"

\* a dict without a '' cell
IsCleanProfile(cd) ==
    /\ ~IsNone(cd)
    /\ \A k \in DOMAIN cd \ (StringColumns \cup BooleanColumns) : ~IsBlank(cd[k])

\* the rate reduction the text of a suggestion states (the lower end where
\* it states a range)
StatedReduction(action, cd) ==
    CASE action = "credit_score" ->
            IF Get(cd, "credit_score", 750) + 50 >= 800 THEN 50 ELSE 25
      [] action = "salary_account" -> 30
      [] action = "account_balance" -> 20
      [] action = "loan_amount" -> 15
      [] action = "tenure" -> 10

RECURSIVE SumReductions(_, _)
SumReductions(actions, cd) ==
    IF actions = <<>> THEN 0
    ELSE StatedReduction(Head(actions), cd) + SumReductions(Tail(actions), cd)

\* C15: potential_savings equals the sum of the rate-reduction potentials
\* of all qualifying actions among the five: every action listed as a
\* suggestion also adds its rate reduction to potential_savings.
C15_EveryActionAddsItsReduction ==
    (IsSuggestionsCall /\ last.result.kind \in {"roadmap", "suggestions"})
    => last.result.potential_savings =
          SumReductions(last.result.suggestions, customer_data)

\* none of the five improvement factors qualifies for a suggestion
NoFactorQualifies(cd) ==
    /\ Get(cd, "credit_score", 750) >= 800
    /\ Get(cd, "is_salary_account", FALSE)
    /\ Get(cd, "avg_monthly_balance", 0) >= 50
    /\ Get(cd, "loan_offer", 0) >= 1000
    /\ Get(cd, "tenure", 12) <= 36

\* C16: get_rate_improvement_suggestions returns the 'already optimal'
\* result exactly when none of the five improvement factors qualifies
\* (credit_score >= 800, salary account held, avg_monthly_balance >= 50000,
\* loan_offer >= 1000000, tenure <= 36), and a list of suggestions in every
\* other case.
C16_OptimalOrSuggestions ==
    (IsSuggestionsCall /\ IsCleanProfile(customer_data))
    => IF NoFactorQualifies(customer_data)
       THEN last.result.kind = "optimal"
       ELSE /\ last.result.kind \in {"roadmap", "suggestions"}
            /\ last.result.suggestions # <<>>

(***************************************************************************)
(* Failures and frame.                                                     *)
(***************************************************************************)
ToolNames ==
    {"get_customer_details", "calculate_emi", "calculate_loan_savings",
     "calculate_dynamic_pricing", "get_rate_improvement_suggestions"}

\* the exception an invocation raises inside the tool's try block
RaisedBy(tool, args, cd) ==
    CASE tool = "calculate_dynamic_pricing" -> PricingRaises(cd, args[1], args[2])
      [] tool = "calculate_emi" ->
            IF EmiRaises(args[2], args[3]) THEN "ZeroDivisionError" ELSE "none"
      [] tool = "get_customer_details" ->
            IF IsNone(cd) THEN "AttributeError" ELSE "none"
      [] tool = "calculate_loan_savings" -> SavingsRaises(cd, args[1])
      [] tool = "get_rate_improvement_suggestions" -> SuggestionsRaises(cd)

\* the text each tool returns from its except clause
FixedMessage(tool) ==
    CASE tool = "calculate_dynamic_pricing" ->
            "Unable to calculate personalized pricing at the moment. Please try again or contact our loan specialist."
      [] tool = "calculate_emi" ->
            "Unable to calculate EMI. Please check the input parameters."
      [] tool = "get_customer_details" ->
            "Unable to retrieve customer details at the moment."
      [] tool = "calculate_loan_savings" ->
            "Unable to calculate loan savings at the moment."
      [] tool = "get_rate_improvement_suggestions" ->
            "Unable to generate rate improvement suggestions at the moment."

ResultKinds ==
    {"message", "pricing", "emi", "details", "savings", "optimal", "roadmap",
     "suggestions"}

\* C17: no tool invocation propagates a failure: for any input and any
\* profile state, None included, each of the five tools returns a text, and
\* when its calculation fails the text is the tool's fixed message,
\* whatever the exception was.
C17_FailureGivesFixedMessage ==
    (last.tool \in ToolNames)
    => /\ last.result.kind \in ResultKinds
       /\ RaisedBy(last.tool, last.args, customer_data) # "none"
            => last.result =
                 [kind |-> "message", text |-> FixedMessage(last.tool)]

C17_Witness ==
    /\ IsPricingCall
    /\ RaisedBy(last.tool, last.args, customer_data) = "TypeError"
    /\ last.result = PricingErrorMessage

\* the value an invocation returns when it runs alone on profile cd
ResultOf(tool, args, cd) ==
    CASE tool = "calculate_dynamic_pricing" -> DynamicPricing(cd, args[1], args[2])
      [] tool = "calculate_emi" -> EmiBreakdown(args[1], args[2], args[3])
      [] tool = "get_customer_details" -> CustomerDetails(cd, args[1])
      [] tool = "calculate_loan_savings" -> LoanSavings(cd, args[1])
      [] tool = "get_rate_improvement_suggestions" -> RateImprovementSuggestions(cd)

\* C18: every tool invocation leaves the session's customer profile
\* unchanged (it stays the profile the loader produced), so after any
\* sequence of invocations in any order the latest invocation has returned
\* what it returns when run alone on that profile.
C18_ToolsOnlyRead ==
    /\ customer_data = CleanCustomerData(row)
    /\ (last.tool \in ToolNames)
         => last.result = ResultOf(last.tool, last.args, CleanCustomerData(row))

\* a savings invocation that followed a pricing invocation and a further one
C18_Witness ==
    /\ memo # <<>>
    /\ memo[1].others
    /\ IsSavingsCall
    /\ last.args[1] = 100
    /\ last.result.kind = "savings"
    /\ customer_data = ExampleProfile

(***************************************************************************)
(* Limit and fee.                                                          *)
(***************************************************************************)
\* the limit multiplier, in tenths, of each of the three groups that have one
BalanceLimit(cd) ==
    LET b == Get(cd, "avg_monthly_balance", 0)
    IN  IF b >= 100 THEN 12 ELSE IF b >= 50 THEN 11 ELSE 10

CreditLimit(cd) ==
    LET c == Get(cd, "credit_score", 750)
    IN  IF c >= 800 THEN 13 ELSE IF c < 650 THEN 8 ELSE 10

IncomeLimit(cd) ==
    LET m == Get(cd, "monthly_income", 0)
    IN  IF m >= 100 THEN 14 ELSE IF m >= 75 THEN 12 ELSE IF m < 30 THEN 9 ELSE 10

\* C19: max_eligible_amount is the base loan amount times the product of
\* the limit multipliers of the factors that fired: balance >= 100k x1.2 or
\* >= 50k x1.1, credit score >= 800 x1.3 or < 650 x0.8, monthly income
\* >= 100k x1.4 or >= 75k x1.2 or < 30k x0.9; no other factor changes it.
C19_MaxEligibleAmount ==
    Priced =>
        last.result.max_eligible_amount =
            BaseLoanAmount(customer_data, last.args[1])
            * (BalanceLimit(customer_data) * CreditLimit(customer_data)
               * IncomeLimit(customer_data))

C19_Witness ==
    /\ Priced
    /\ BalanceLimit(customer_data) = 12
    /\ CreditLimit(customer_data) = 13
    /\ IncomeLimit(customer_data) = 14
    /\ last.args[1] = 0
    /\ last.result.max_eligible_amount = customer_data["loan_offer"] * 2184

\* the product, in thousandths, of the fee multipliers that fired
FeeDiscounts(cd) ==
    (IF Get(cd, "is_salary_account", FALSE) THEN 8 ELSE 10)
    * (IF Get(cd, "loan_history_score", "good") = "excellent" THEN 7 ELSE 10)
    * (IF Get(cd, "is_festive_season", FALSE) THEN 9 ELSE 10)

TagOrder ==
    <<"Excellent banking relationship", "Strong credit profile",
      "Salary account holder", "High income bracket",
      "Risk factors considered">>

\* the tags of TagOrder whose condition holds, in the order of TagOrder
TagsWhen(holds) == SelectSeq(TagOrder, LAMBDA t : holds[t])

StatedTagConditions ==
    [t \in {TagOrder[i] : i \in 1..5} |->
        CASE t = "Excellent banking relationship" ->
                 last.result.rate_adjustment < 0
          [] t = "Strong credit profile" -> CreditScoreOf(customer_data) >= 750
          [] t = "Salary account holder" ->
                 Get(customer_data, "is_salary_account", FALSE)
          [] t = "High income bracket" ->
                 Get(customer_data, "monthly_income", 0) >= 75
          [] OTHER -> last.result.rate_adjustment > 0]

DeadBandTagConditions ==
    [t \in {TagOrder[i] : i \in 1..5} |->
        CASE t = "Excellent banking relationship" ->
                 last.result.rate_adjustment < -10
          [] t = "Risk factors considered" -> last.result.rate_adjustment > 10
          [] OTHER -> StatedTagConditions[t]]

\* C23 as stated: the explanation_factors are, in order, the net-negative
\* tag for every rate_adjustment < 0, the credit tag for a score >= 750, the
\* salary-account tag, the income tag for an income >= 75000 and the risk tag
\* for every rate_adjustment > 0, each present exactly when its condition
\* holds.
C23_TagsAsStated ==
    Priced => last.result.explanation_factors = TagsWhen(StatedTagConditions)

\* C23 amended: as C23, except that the net-negative tag is present exactly
\* when rate_adjustment is below -0.1 and the risk tag exactly when it is
\* above +0.1 (a cumulative adjustment of exactly -0.1 or +0.1 is left out:
\* there the comparison is decided by the rounding of the floating-point sum).
C23_TagsAmended ==
    (Priced /\ last.result.rate_adjustment \notin {-10, 10})
        => last.result.explanation_factors = TagsWhen(DeadBandTagConditions)

C23_Witness ==
    /\ Priced
    /\ last.result.rate_adjustment \in {-5, 5}
    /\ Len(last.result.explanation_factors) >= 2


(***************************************************************************)
(* The clamp and the sign of the adjustment.                               *)
(***************************************************************************)
FollowsSign ==
    /\ last.result.rate_adjustment <= 0
           => last.result.final_interest_rate <= last.result.base_interest_rate
    /\ last.result.rate_adjustment >= 0
           => last.result.final_interest_rate >= last.result.base_interest_rate

\* C28 as stated: for every non-zero base rate the final_interest_rate is at
\* most the base rate when rate_adjustment <= 0 and at least the base rate
\* when rate_adjustment >= 0.
C28_ClampFollowsSignAsStated ==
    (Priced /\ last.result.base_interest_rate # 0) => FollowsSign

\* C28 amended: for every base rate within [8.0, 18.0] the
\* final_interest_rate is at most the base rate when rate_adjustment <= 0 and
\* at least the base rate when rate_adjustment >= 0.
C28_ClampFollowsSignAmended ==
    (Priced /\ last.result.base_interest_rate \in 800..1800) => FollowsSign

\* outside [8.0, 18.0] the final rate is the nearer bound, whatever the sign
C28_OutOfRangeBasePinned ==
    Priced =>
        /\ (last.result.base_interest_rate < 800 /\ last.result.rate_adjustment <= 0)
               => last.result.final_interest_rate = 800
        /\ (last.result.base_interest_rate > 1800 /\ last.result.rate_adjustment >= 0)
               => last.result.final_interest_rate = 1800

C28_Witness ==
    /\ Priced
    /\ last.result.base_interest_rate \in 801..1799
    /\ last.result.rate_adjustment < 0
    /\ last.result.base_interest_rate + last.result.rate_adjustment < 800
    /\ last.result.final_interest_rate = 800


(***************************************************************************)
(* The projected rate of the improvement roadmap.                          *)
(***************************************************************************)
IsRoadmap == IsSuggestionsCall /\ last.result.kind = "roadmap"

\* C29: whenever get_rate_improvement_suggestions finds potential_savings > 0,
\* the projected new rate is not higher than the customer's current rate (so
\* that the reported monthly and total savings are not negative).
C29_NewRateNotAboveCurrent ==
    (IsRoadmap /\ last.result.potential_savings > 0)
        => last.result.new_rate <= last.result.current_rate


(***************************************************************************)
(* The range of the cumulative rate adjustment.                            *)
(***************************************************************************)
AllBlocksRun == last.tool = "factor_block" /\ last.args[1] = Len(FactorBlockKeys)

\* C30: although the factor deltas stack without a cap, the cumulative
\* rate_adjustment, once all factor blocks have run, lies within
\* [-3.30, +3.25] percentage points for every profile and request.
C30_AdjustmentWithinRange ==
    AllBlocksRun => last.result.ra \in -330..325

\* the lower bound is reached
C30_Witness == AllBlocksRun /\ last.result.ra = -330

\* the upper bound is reached
C30_UpperBoundReached == AllBlocksRun /\ last.result.ra = 325

\* the same range on whole calls: every priced call of the pricing
\* specification reports an adjustment within the range
C30_PricedWithinRange ==
    Priced => last.result.rate_adjustment \in -330..325


(***************************************************************************)
(* The browser session: login_form, logout (src/auth/auth.py), the script  *)
(* run that creates the agent runner (src/anaya.py) and                    *)
(* process_with_history (src/aiAgents/loan_reengagement2.py).  The         *)
(* customer data file and the credentials store are read on every          *)
(* operation that needs them; what a read finds is an input of the         *)
(* operation.  A customer_id is a string; None is NoneId and a missing     *)
(* cell reads as "nan".                                                    *)
(***************************************************************************)
MaxCalls == 2

\* the tool list handed to Agent(...)
LOAN_TOOLS ==
    {"get_customer_details", "calculate_emi", "calculate_loan_savings",
     "calculate_dynamic_pricing"}

\* the rows of the customer data file when it is readable and complete
CustomerRecords ==
    <<Put(ExampleProfile, "customer_id", "C001"),
      Put(WorstProfile, "customer_id", "C002")>>

\* what a read of the customer data file finds
DataFiles == {"missing", "empty", "no_customer_id_column", "records"}

\* the rows of the credentials store
Credentials ==
    <<[username |-> "alice", password |-> "pw1", customer_id |-> "C001", role |-> "customer"],
      [username |-> "bob", password |-> "pw2", customer_id |-> "C002", role |-> "customer"],
      [username |-> "carol", password |-> "pw3", customer_id |-> "nan", role |-> "customer"],
      [username |-> "dave", password |-> "pw1", customer_id |-> "C999", role |-> "admin"],
      [username |-> "erin", password |-> "pw2", customer_id |-> "C002 ", role |-> "customer"]>>

\* what a read of the credentials store finds
CredentialFiles == {"unreadable", "no_customer_id_column", "records"}

Usernames == {"", "alice", "bob", "carol", "dave", "erin", "mallory"}

Passwords == {"", "pw1", "pw2", "pw3"}

\* str(customer_id).strip() on the identifiers explored
Strip(customer_id) == IF customer_id = "C002 " THEN "C002" ELSE customer_id

\* authenticate_user returned None
NoUser == [k \in {"None"} |-> 0]

\* username and password are matched against the store separately
authenticate_user_AnyRow(store, username, password) ==
    IF store = "unreadable" THEN NoUser
    ELSE LET user == SelectSeq(Credentials, LAMBDA r : r.username = username)
             known == SelectSeq(Credentials, LAMBDA r : r.password = password)
         IN  IF user = <<>> \/ known = <<>> THEN NoUser
             ELSE IF store = "no_customer_id_column"
             THEN [user[1] EXCEPT !.customer_id = NoneId]
             ELSE user[1]

authenticate_user(store, username, password) ==
    IF store = "unreadable" THEN NoUser
    ELSE LET user == SelectSeq(Credentials,
                         LAMBDA r : r.username = username /\ r.password = password)
         IN  IF user = <<>> THEN NoUser
             ELSE IF store = "no_customer_id_column"
             THEN [user[1] EXCEPT !.customer_id = NoneId]
             ELSE user[1]

\* `if customer_id:` is false
Falsy(customer_id) == customer_id \in {NoneId, ""}

\* auth.get_customer_details: the raw row, or None
AuthCustomerDetails(file, customer_id) ==
    IF file # "records" THEN NoneProfile
    ELSE LET customer == SelectSeq(CustomerRecords,
                             LAMBDA r : r.customer_id = customer_id)
         IN  IF customer = <<>> THEN NoneProfile ELSE customer[1]

\* utils.load_customer_data: the exception raised ("none" when it returns)
\* and the profile returned
load_customer_data(file, customer_id) ==
    IF file = "missing"
    THEN [error |-> "FileNotFoundError", data |-> NoneProfile]
    ELSE IF file \in {"empty", "no_customer_id_column"}
    THEN [error |-> "ValueError", data |-> NoneProfile]
    ELSE IF ~Falsy(customer_id)
    THEN LET found == SelectSeq(CustomerRecords,
                          LAMBDA r : Strip(r.customer_id) = Strip(customer_id))
         IN  IF found = <<>>
             THEN [error |-> "ValueError", data |-> NoneProfile]
             ELSE [error |-> "none", data |-> CleanCustomerData(found[1])]
    ELSE [error |-> "none", data |-> CleanCustomerData(CustomerRecords[1])]

\* StreamlitLoanReengagementRunner(customer_id) once the profile is loaded
NewRunner(data) == [customer_data |-> data, tools |-> LOAN_TOOLS]

EmptyHistory == [messages |-> <<>>, interaction_count |-> 0]

\* the exception of the load attempted by a run of the script on session s
LoadAttempt(s, file) ==
    IF s.authenticated /\ s.agent = NoAgent
    THEN load_customer_data(file, s.customer_id).error
    ELSE "not_attempted"

\* a failed load is ignored: the runner is stored without a profile
RunScript_IgnoresFailure(s, file) ==
    IF ~s.authenticated THEN [s EXCEPT !.page = "login"]
    ELSE [s EXCEPT
             !.agent = IF @ = NoAgent
                       THEN NewRunner(load_customer_data(file, s.customer_id).data)
                       ELSE @,
             !.session_history = IF @ = NoHistory THEN EmptyHistory ELSE @,
             !.page = "chat"]

\* one run of the script from the authentication check to the chat page
RunScript(s, file) ==
    IF ~s.authenticated THEN [s EXCEPT !.page = "login"]
    ELSE IF LoadAttempt(s, file) \notin {"none", "not_attempted"}
    THEN [s EXCEPT !.page = "unavailable"]
    ELSE [s EXCEPT
             !.agent = IF @ = NoAgent
                       THEN NewRunner(load_customer_data(file, s.customer_id).data)
                       ELSE @,
             !.session_history = IF @ = NoHistory THEN EmptyHistory ELSE @,
             !.page = "chat"]

InitSession ==
    /\ row = NoneProfile
    /\ customer_data = NoneProfile
    /\ last = NoCall
    /\ memo = <<>>
    /\ session = InitialSession

\* store: what the read of the credentials store found
LoginResult(store, ok, load) ==
    [kind |-> "login", store |-> store, ok |-> ok, load |-> load]

\* the session keys login_form writes on success
LoggedIn(s, username, user_data) ==
    [s EXCEPT !.authenticated = TRUE,
              !.customer_id = user_data.customer_id,
              !.username = username,
              !.user_role = user_data.role]

\* a submission of the login form, and the run of the script that st.rerun()
\* starts after a successful one
login_form(username, password, store, file) ==
    /\ ~session.authenticated
    /\ LET user_data == authenticate_user(store, username, password)
       IN  IF username = "" \/ password = "" \/ user_data = NoUser
           THEN /\ last' = Call("login_form", <<username, password>>,
                                LoginResult(store, FALSE, "not_attempted"))
                /\ UNCHANGED <<row, customer_data, session>>
           ELSE LET customer_id == user_data.customer_id
                    details == IF Falsy(customer_id) THEN NoneProfile
                               ELSE AuthCustomerDetails(file, customer_id)
                    s == LoggedIn(session, username, user_data)
                IN  /\ customer_data' = details
                    /\ row' = details
                    /\ session' = RunScript(s, file)
                    /\ last' = Call("login_form", <<username, password>>,
                                    LoginResult(store, TRUE, LoadAttempt(s, file)))
    /\ UNCHANGED memo

\* the Logout button of the page
logout ==
    /\ session.authenticated
    /\ session.page = "chat"
    /\ session' = [session EXCEPT !.authenticated = FALSE,
                                  !.customer_id = NoneId,
                                  !.username = NoneId,
                                  !.user_role = "customer",
                                  !.page = "login"]
    /\ customer_data' = NoneProfile
    /\ row' = NoneProfile
    /\ last' = Call("logout", <<>>, [kind |-> "logout"])
    /\ UNCHANGED memo

\* a run of the script with no chat input (a refresh of the page)
rerun(file) ==
    /\ session.authenticated
    /\ session' = RunScript(session, file)
    /\ last' = Call("rerun", <<>>, [kind |-> "run", load |-> LoadAttempt(session, file)])
    /\ UNCHANGED <<row, customer_data, memo>>

\* the invocations the agent may make of the tools it was given
AgentToolCalls(tools) ==
    {c \in {<<"calculate_dynamic_pricing", <<la, rt>>>> :
                la \in LoanAmounts, rt \in RequestedTenures}
           \cup {<<"calculate_emi", a>> : a \in ToolsEmiArguments}
           \cup {<<"get_customer_details", <<d>>>> : d \in {"all", "credit_score"}}
           \cup {<<"calculate_loan_savings", <<a>>>> : a \in PrepaymentAmounts}
           \cup {<<"get_rate_improvement_suggestions", <<>>>>} :
        c[1] \in tools}

UserMessage == [role |-> "user", error |-> FALSE]

AssistantMessage(error) == [role |-> "assistant", error |-> error]

\* session_history after _process_async returned
Answered(h) ==
    [h EXCEPT !.messages = @ \o <<UserMessage, AssistantMessage(FALSE)>>,
              !.interaction_count = @ + 1]

\* a failed call is counted as an interaction
Apologized_Counted(h) ==
    [h EXCEPT !.messages = @ \o <<UserMessage, AssistantMessage(TRUE)>>,
              !.interaction_count = @ + 1]

\* session_history after the except clause of process_with_history
Apologized(h) ==
    [h EXCEPT !.messages = @ \o <<UserMessage, AssistantMessage(TRUE)>>]

\* a chat message: the runner stores its profile in the session, the agent
\* runs (calling at most one tool here) and the history is extended
process_with_history ==
    /\ session.authenticated
    /\ session.page = "chat"
    /\ Len(session.session_history.messages) < 2 * MaxCalls
    /\ customer_data' = session.agent.customer_data
    /\ row' = session.agent.customer_data
    /\ \E raised \in BOOLEAN :
       \E tool_call \in {NoCall} \cup
              {Call(c[1], c[2], ResultOf(c[1], c[2], session.agent.customer_data)) :
                   c \in AgentToolCalls(session.agent.tools)} :
          /\ session' = [session EXCEPT !.session_history =
                            IF raised THEN Apologized(@) ELSE Answered(@)]
          /\ last' = Call("process_with_history", <<"prompt">>,
                          [kind |-> "reply", error |-> raised,
                           tool_call |-> tool_call])
    /\ UNCHANGED memo

NextSession ==
    \/ \E username \in Usernames, password \in Passwords,
          store \in CredentialFiles, file \in DataFiles :
          login_form(username, password, store, file)
    \/ logout
    \/ \E file \in DataFiles : rerun(file)
    \/ process_with_history

SpecSession == InitSession /\ [][NextSession]_vars


(***************************************************************************)
(* Session properties.                                                     *)
(***************************************************************************)
HasRunner == session.agent # NoAgent

\* C22: the tool set handed to the agent runtime holds all five operations
\* (get_customer_details, calculate_emi, calculate_loan_savings,
\* calculate_dynamic_pricing, get_rate_improvement_suggestions).
C22_AllFiveToolsOffered ==
    HasRunner => ToolNames \subseteq session.agent.tools


\* the run of the script made by the latest operation tried to load the
\* profile and the load raised
LoadFailed(call) ==
    /\ call.tool \in {"login_form", "rerun"}
    /\ call.result.load \in {"FileNotFoundError", "ValueError"}

\* C21: when loading the profile fails (data file missing, empty, without a
\* customer_id column, or customer_id not found), the run of the script
\* stores no agent runner and stops at the error page; the chat history is
\* untouched, and from the error page no chat message is processed until a
\* later run of the script has loaded the profile.
C21_FailedLoadStopsSession ==
    [][/\ LoadFailed(last') =>
              /\ session'.agent = NoAgent
              /\ session'.page = "unavailable"
              /\ session'.session_history = session.session_history
       /\ session.page = "unavailable" =>
              /\ last'.tool # "process_with_history"
              /\ session'.page = "chat" => last'.result.load = "none"]_vars

C21_Witness ==
    /\ last.tool = "rerun"
    /\ last.result.load = "FileNotFoundError"
    /\ session.authenticated
    /\ session.page = "unavailable"
    /\ ~HasRunner


IsChatReply == last.tool = "process_with_history"

\* C24: whenever a chat message is processed (also after a logout followed
\* by a login as a different customer), the profile that the agent and the
\* tools answer from is the profile of the customer logged in now: the one
\* load_customer_data returns for the session's customer_id.
C24_AnswersFromCurrentCustomer ==
    IsChatReply =>
        customer_data = load_customer_data("records", session.customer_id).data

\* C25 as stated: the profile of a newly created runner is the record whose
\* customer_id equals the customer_id of the authenticated session, so no
\* runner is created when the session has no customer_id or no record
\* matches.
C25_RunnerLoadsOwnRecord ==
    [][(~HasRunner /\ session'.agent # NoAgent) =>
           /\ ~Falsy(session'.customer_id)
           /\ session'.agent.customer_data.customer_id = Strip(session'.customer_id)]_vars

\* the half of C25 that holds: a customer_id that matches no record creates
\* no runner
C25_UnknownCustomerFails ==
    [][(/\ ~HasRunner
        /\ session'.authenticated
        /\ ~Falsy(session'.customer_id)
        /\ \A i \in 1..Len(CustomerRecords) :
              CustomerRecords[i].customer_id # Strip(session'.customer_id))
           => session'.agent = NoAgent]_vars

WellFormed(h) ==
    h # NoHistory =>
        /\ Len(h.messages) % 2 = 0
        /\ \A i \in 1..Len(h.messages) :
              h.messages[i].role = IF i % 2 = 1 THEN "user" ELSE "assistant"
        /\ h.interaction_count =
              Cardinality({i \in 1..Len(h.messages) :
                              /\ h.messages[i].role = "assistant"
                              /\ ~h.messages[i].error})

\* C26: after any sequence of process_with_history calls, successful or
\* failing, from an empty history, the messages have even length and
\* alternate user, assistant; each call appends exactly one user and one
\* assistant message; interaction_count is the number of assistant messages
\* without the error flag.
C26_HistoryWellFormed ==
    [][/\ WellFormed(session'.session_history)
       /\ last'.tool = "process_with_history" =>
              LET before == session.session_history.messages
                  after == session'.session_history.messages
              IN  /\ Len(after) = Len(before) + 2
                  /\ SubSeq(after, 1, Len(before)) = before
                  /\ after[Len(before) + 1].role = "user"
                  /\ after[Len(before) + 2].role = "assistant"
                  /\ after[Len(before) + 2].error = last'.result.error]_vars

C26_Witness ==
    /\ IsChatReply
    /\ Len(session.session_history.messages) = 4
    /\ session.session_history.messages[2].error
    /\ ~session.session_history.messages[4].error
    /\ session.session_history.interaction_count = 1

SessionKeys(s) == <<s.authenticated, s.customer_id, s.username, s.user_role>>

\* C27: the session becomes authenticated only by a login submission whose
\* non-empty username and password both match the same row of the
\* credentials store, read successfully; a failed attempt leaves
\* authenticated, customer_id, username, customer_data and user_role
\* unchanged.
C27_AuthenticatedOnlyByMatchingLogin ==
    [][/\ (~session.authenticated /\ session'.authenticated) =>
              /\ last'.tool = "login_form"
              /\ last'.result.ok
              /\ last'.result.store # "unreadable"
              /\ last'.args[1] # "" /\ last'.args[2] # ""
              /\ \E i \in 1..Len(Credentials) :
                    /\ Credentials[i].username = last'.args[1]
                    /\ Credentials[i].password = last'.args[2]
                    /\ session'.username = Credentials[i].username
                    /\ session'.user_role = Credentials[i].role
       /\ (last'.tool = "login_form" /\ ~last'.result.ok) =>
              /\ SessionKeys(session') = SessionKeys(session)
              /\ customer_data' = customer_data]_vars

C27_Witness ==
    /\ last.tool = "login_form"
    /\ last.args = <<"alice", "pw2">>
    /\ last.result.store = "records"
    /\ ~last.result.ok
    /\ ~session.authenticated

=============================================================================
